---- MODULE Spec2Model ----
(***************************************************************************)
(* Request intake and sequencing layer of the browser agent:               *)
(* BrowserAgent.collect_inputs (producer) and BrowserAgent.process_inputs  *)
(* (consumer) of src/main.py, run concurrently by asyncio.gather on one    *)
(* event loop, with the hub helpers of src/utils/coral_tools.py and the    *)
(* terminal reader of src/utils/manual_input.py.                           *)
(*                                                                         *)
(* One action is one run of a task between two suspension points (await    *)
(* on an external call, a sleep, or an empty queue).  Texts are sequences  *)
(* of one-character or one-token strings.  None and the empty string are   *)
(* both falsy in the code's tests and are modelled by the same value.      *)
(***************************************************************************)
EXTENDS Integers, Sequences, FiniteSets, TLC

\* ---------------------------------------------------------------- bounds
MaxRequests == 3
MaxHistoryMaxlen == 2
MaxFaults == 2

\* ---------------------------------------------------------------- input sets
NoId == ""
NoText == <<>>
Outputs == {<<"done">>}
Errors == {<<"boom">>}
Whitespace == {" ", "\t"}

\* Input number n carries its own text, thread and sender (cyclically), so
\* that requests in one run can be told apart by every field.
Letters == <<"A", "B", "C">>
ThreadIds == <<"t1", "t2", "t3">>
SenderIds == <<"s1", "s2", "s3">>
Pick(names, n) == names[((n - 1) % Len(names)) + 1]

\* the lines the operator may type as input number n
Lines(n) == { <<>>, <<" ">>, <<Pick(Letters, n)>>, <<" ", Pick(Letters, n), "\t">>,
              <<"e", "x", "i", "t">>, <<" ", "E", "x", "I", "T", " ">> }

\* The entries wait_for_mentions reads from the list parse_mentions_response
\* returns: a missing key reads as None (dict.get), modelled by NoId / NoText.
Message(t, s, c) == [threadId |-> t, senderId |-> s, content |-> c]
WellFormed(n) == Message(Pick(ThreadIds, n), Pick(SenderIds, n), <<Pick(Letters, n)>>)
Malformed(n) == { [WellFormed(n) EXCEPT !.senderId = NoId],
                  [WellFormed(n) EXCEPT !.content = NoText],
                  [WellFormed(n) EXCEPT !.threadId = NoId] }
Messages(n) == {WellFormed(n)} \cup Malformed(n)
ExtraMessage == Message("t9", "s9", <<"Z">>)
\* the lists parse_mentions_response may return on poll number n
MentionsResponses(n) ==
    {<<>>, <<WellFormed(n), ExtraMessage>>} \cup {<<m>> : m \in Messages(n)}

\* agent.ainvoke returns a response with an "output" entry, returns one
\* without it, or raises
GatewayOutcomes ==
    [kind : {"ok"}, val : Outputs] \cup [kind : {"nokey"}, val : {NoText}]
        \cup [kind : {"raise"}, val : Errors]

\* ---------------------------------------------------------------- texts
BusyText == <<"Agent is processing previous request and is busy">>
MissingFieldsText == <<"Error: Missing message fields">>
NoResponseText == <<"No response generated">>
ErrorPrefix == <<"Error: ">>

VARIABLES
    MANUAL_INPUT,     \* module switch of main.py, fixed for a run
    history_maxlen,   \* BrowserAgent(history_maxlen)
    history,          \* self.history: deque of (input_query, output)
    is_busy,          \* self.is_busy
    input_queue,      \* asyncio.Queue items, oldest first
    unfinished_tasks, \* asyncio.Queue._unfinished_tasks
    ppc,              \* where collect_inputs is suspended
    pcur,             \* collect_inputs locals: the request being taken in
    cpc,              \* where process_inputs is suspended
    ccur,             \* process_inputs locals: the dequeued request, output
    nextId,           \* number of inputs the environment has delivered
    intake,           \* input number n as delivered, and the request that
                      \* process_inputs held when collect_inputs read is_busy
    plog,             \* what collect_inputs has emitted, in order
    clog,             \* what process_inputs has emitted, in order
    appended,         \* every history.append, in order
    env,              \* which required environment variables are set
    phase,            \* where the program is between construction and exit
    conn_log          \* connections opened and closed, in order

vars == <<MANUAL_INPUT, history_maxlen, history, is_busy, input_queue,
          unfinished_tasks, ppc, pcur, cpc, ccur, nextId, intake, plog, clog,
          appended, env, phase, conn_log>>

NoRequest == [id |-> 0, input_query |-> NoText, thread_id |-> NoId, sender_id |-> NoId]
NoCur == [req |-> NoRequest, history_str |-> NoText, output |-> NoText]

TruthyId(x) == x # NoId
TruthyText(x) == x # NoText

\* An emitted event.  For a send_message call: its arguments and whether it
\* returned (ok) or raised.
Event(ev, id, thread, sender, content, ok) ==
    [ev |-> ev, id |-> id, threadId |-> thread, mentions |-> sender,
     content |-> content, ok |-> ok]

\* the failures of external calls recorded so far; at most MaxFaults of the
\* calls whose outcome is recorded fail in one run
Faults == Cardinality({i \in DOMAIN plog : ~plog[i].ok})
            + Cardinality({i \in DOMAIN clog : ~clog[i].ok})
CanFail == Faults < MaxFaults

\* ---------------------------------------------------------------- helpers
\* a deque that ignores its maxlen
DequeAppend_unbounded(d, x, maxlen) == Append(d, x)

\* collections.deque(maxlen=n).append
DequeAppend(d, x, maxlen) ==
    IF maxlen = 0 THEN d
    ELSE IF Len(d) >= maxlen THEN Append(Tail(d), x)
    ELSE Append(d, x)

\* asyncio.Queue.put on an unbounded queue: never suspends
QueuePut(q, item) == Append(q, item)

\* str.strip()
RECURSIVE LStrip(_)
LStrip(s) == IF s # <<>> /\ Head(s) \in Whitespace THEN LStrip(Tail(s)) ELSE s
RECURSIVE RStrip(_)
RStrip(s) == IF s # <<>> /\ s[Len(s)] \in Whitespace
             THEN RStrip(SubSeq(s, 1, Len(s) - 1)) ELSE s
Strip(s) == RStrip(LStrip(s))

\* str.lower() on the letters that occur in Lines
LowerChar(c) ==
    CASE c = "E" -> "e" [] c = "X" -> "x" [] c = "I" -> "i" [] c = "T" -> "t"
      [] c = "A" -> "a" [] c = "B" -> "b" [] c = "C" -> "c" [] OTHER -> c
Lower(s) == [i \in 1..Len(s) |-> LowerChar(s[i])]

\* get_user_input: (input_query, should_exit)
get_user_input(line) ==
    LET input_query == Strip(line) IN
    IF input_query = <<>> THEN [input_query |-> NoText, should_exit |-> FALSE]
    ELSE IF Lower(input_query) = <<"e", "x", "i", "t">>
         THEN [input_query |-> NoText, should_exit |-> TRUE]
    ELSE [input_query |-> input_query, should_exit |-> FALSE]

\* BrowserAgent._format_history: "None" for an empty history, else one
\* numbered pair of lines per entry, joined by newlines
HistoryLine(i, entry) ==
    <<ToString(i), ". User: ">> \o entry[1] \o <<"\n   Assistant: ">> \o entry[2]
RECURSIVE JoinLines(_, _)
JoinLines(h, i) ==
    IF i > Len(h) THEN <<>>
    ELSE IF i = Len(h) THEN HistoryLine(i, h[i])
    ELSE HistoryLine(i, h[i]) \o <<"\n">> \o JoinLines(h, i + 1)
_format_history(h) == IF h = <<>> THEN <<"None">> ELSE JoinLines(h, 1)

\* the output process_inputs derives from the gateway call
GatewayOutput(outcome) ==
    CASE outcome.kind = "ok" -> outcome.val
      [] outcome.kind = "nokey" -> NoResponseText
      [] outcome.kind = "raise" -> ErrorPrefix \o outcome.val

\* ---------------------------------------------------------------- Init
\* BrowserAgent(history_maxlen=5) in the __main__ block
MainHistoryMaxlen == 5

\* the state in which run() starts collect_inputs and process_inputs
InitTasks ==
    /\ history = <<>>
    /\ is_busy = FALSE
    /\ input_queue = <<>>
    /\ unfinished_tasks = 0
    /\ ppc = IF MANUAL_INPUT THEN "input" ELSE "get_resources"
    /\ pcur = NoRequest
    /\ cpc = "get"
    /\ ccur = NoCur
    /\ nextId = 0
    /\ intake = <<>>
    /\ plog = <<>>
    /\ clog = <<>>
    /\ appended = <<>>

\* the connections run() has opened when it reaches asyncio.gather
OpenedAtGather == IF MANUAL_INPUT THEN <<"open_tool">> ELSE <<"open_tool", "open_hub">>

\* asyncio.gather has created both tasks; collect_inputs runs first, up to
\* its first suspension (the blocking input() in manual mode, the
\* get_resources call in remote mode); process_inputs waits on the queue.
InitAgent(maxlens) ==
    /\ MANUAL_INPUT \in BOOLEAN
    /\ history_maxlen \in maxlens
    /\ env = [model |-> TRUE, hub |-> TRUE]
    /\ phase = "running"
    /\ conn_log = OpenedAtGather
    /\ InitTasks

\* the program before BrowserAgent(history_maxlen=5) is constructed, with
\* any combination of the required environment variables set or missing
InitLife ==
    /\ MANUAL_INPUT \in BOOLEAN
    /\ history_maxlen = MainHistoryMaxlen
    /\ env \in [model : BOOLEAN, hub : BOOLEAN]
    /\ phase = "starting"
    /\ conn_log = <<>>
    /\ InitTasks

\* the agent as the program constructs it
Init == InitAgent({MainHistoryMaxlen})

\* the agent constructed with any small history capacity
InitRing == InitAgent(0..MaxHistoryMaxlen)

\* ---------------------------------------------------------------- producer
\* While collect_inputs sits in the blocking input() call the event loop is
\* stopped: no other task runs until the line has been read.
LoopBlocked == MANUAL_INPUT /\ ppc = "input"

\* top of the while loop of collect_inputs, up to the first suspension
LoopTop == IF MANUAL_INPUT THEN "input" ELSE "get_resources"

\* the tasks started by asyncio.gather run until gather is cancelled
Running == phase = "running"

config == <<MANUAL_INPUT, history_maxlen, env, phase, conn_log>>
consumerVars == <<history, is_busy, cpc, ccur, clog, appended>>

\* input_queue.put has handed an item to the get() process_inputs was
\* suspended in: the wake-up of process_inputs is in the event loop's ready
\* queue, which runs callbacks in the order they became ready
ConsumerReady == cpc = "get" /\ input_queue # <<>>
\* collect_inputs is resumed from a suspension (an external call is over, a
\* sleep has ended): that callback becomes ready after the put of the same
\* task, so it runs after a wake-up of process_inputs the put has caused
ProducerResumes == Running /\ ~ConsumerReady

\* input number n as the producer got it, and the request the consumer held
\* when the producer tested is_busy for it (0: is_busy was false, or was not
\* tested because the message was dropped before)
Delivered(message, tested) ==
    [msg |-> message, during |-> IF tested /\ is_busy THEN ccur.req.id ELSE 0]

\* collect_inputs, manual branch, without the test of is_busy: no notice is
\* printed
ManualInput_no_notice(line) ==
    /\ Running /\ MANUAL_INPUT /\ ppc = "input"
    /\ LET r == get_user_input(line) IN
       IF r.should_exit
       THEN /\ ppc' = "done"
            /\ UNCHANGED <<input_queue, unfinished_tasks, nextId, intake, plog>>
       ELSE IF ~TruthyText(r.input_query)
       THEN /\ ppc' = "sleep"
            /\ UNCHANGED <<input_queue, unfinished_tasks, nextId, intake, plog>>
       ELSE /\ nextId < MaxRequests
            /\ LET id == nextId + 1
                   req == [id |-> id, input_query |-> r.input_query,
                           thread_id |-> NoId, sender_id |-> NoId]
                   notice == <<>>
               IN /\ nextId' = id
                  /\ intake' = Append(intake, Delivered(
                                    Message(NoId, NoId, r.input_query), TRUE))
                  /\ input_queue' = QueuePut(input_queue, req)
                  /\ unfinished_tasks' = unfinished_tasks + 1
                  /\ plog' = plog \o notice
                               \o <<Event("enqueue", id, NoId, NoId, r.input_query,
                                          TRUE)>>
                  /\ ppc' = "input"
    /\ pcur' = NoRequest
    /\ UNCHANGED <<config, consumerVars>>

\* collect_inputs, manual branch: one line read from the terminal
ManualInput(line) ==
    /\ Running /\ MANUAL_INPUT /\ ppc = "input"
    /\ LET r == get_user_input(line) IN
       IF r.should_exit
       THEN /\ ppc' = "done"
            /\ UNCHANGED <<input_queue, unfinished_tasks, nextId, intake, plog>>
       ELSE IF ~TruthyText(r.input_query)
       THEN /\ ppc' = "sleep"
            /\ UNCHANGED <<input_queue, unfinished_tasks, nextId, intake, plog>>
       ELSE /\ nextId < MaxRequests
            /\ LET id == nextId + 1
                   req == [id |-> id, input_query |-> r.input_query,
                           thread_id |-> NoId, sender_id |-> NoId]
                   notice == IF is_busy
                             THEN <<Event("busy", id, NoId, NoId, BusyText, TRUE)>>
                             ELSE <<>>
               IN /\ nextId' = id
                  /\ intake' = Append(intake, Delivered(
                                    Message(NoId, NoId, r.input_query), TRUE))
                  /\ input_queue' = QueuePut(input_queue, req)
                  /\ unfinished_tasks' = unfinished_tasks + 1
                  /\ plog' = plog \o notice
                               \o <<Event("enqueue", id, NoId, NoId, r.input_query,
                                          TRUE)>>
                  /\ ppc' = "input"
    /\ pcur' = NoRequest
    /\ UNCHANGED <<config, consumerVars>>

\* input() raises (EOFError): caught by the except clause of collect_inputs
ManualInputRaises ==
    /\ Running /\ MANUAL_INPUT /\ ppc = "input"
    /\ ppc' = "backoff"
    /\ UNCHANGED <<config, consumerVars, input_queue, unfinished_tasks, pcur,
                   nextId, intake, plog>>

\* wait_for_mentions: client.get_resources returns or raises
GetResourcesReturn(ok) ==
    /\ ProducerResumes /\ ~MANUAL_INPUT /\ ppc = "get_resources"
    /\ ppc' = IF ok THEN "wait_mentions" ELSE "backoff"
    /\ UNCHANGED <<config, consumerVars, input_queue, unfinished_tasks, pcur,
                   nextId, intake, plog>>

\* wait_for_mentions: the wait_for_mentions tool call (or the parsing of its
\* result) raises
MentionsRaises ==
    /\ ProducerResumes /\ ~MANUAL_INPUT /\ ppc = "wait_mentions"
    /\ ppc' = "backoff"
    /\ UNCHANGED <<config, consumerVars, input_queue, unfinished_tasks, pcur,
                   nextId, intake, plog>>

\* wait_for_mentions: the hub answers "No new messages"
MentionsNoNew ==
    /\ ProducerResumes /\ ~MANUAL_INPUT /\ ppc = "wait_mentions"
    /\ ppc' = "sleep"
    /\ UNCHANGED <<config, consumerVars, input_queue, unfinished_tasks, pcur,
                   nextId, intake, plog>>

\* wait_for_mentions that does not test the thread identifier on its own: a
\* message without one reaches the test of all three fields
MentionsReturn_no_thread_check(messages) ==
    /\ ProducerResumes /\ ~MANUAL_INPUT /\ ppc = "wait_mentions"
    /\ IF messages = <<>>
       THEN /\ ppc' = "sleep"
            /\ UNCHANGED <<pcur, input_queue, unfinished_tasks, nextId, intake, plog>>
       ELSE /\ nextId < MaxRequests
            /\ LET message == messages[1]
                   thread_id == message.threadId
                   sender_id == message.senderId
                   content == message.content
                   id == nextId + 1
                   req == [id |-> id, input_query |-> content,
                           thread_id |-> thread_id, sender_id |-> sender_id]
               IN /\ nextId' = id
                  /\ intake' = Append(intake, Delivered(message,
                                    TruthyId(thread_id) /\ TruthyId(sender_id)
                                        /\ TruthyText(content)))
                  /\ IF ~(TruthyId(thread_id) /\ TruthyId(sender_id)
                                 /\ TruthyText(content))
                     THEN \* send_message "Error: Missing message fields" in flight
                          /\ ppc' = "send_err"
                          /\ pcur' = req
                          /\ UNCHANGED <<input_queue, unfinished_tasks, plog>>
                     ELSE IF is_busy
                     THEN \* process_and_respond(busy text): send_message in flight
                          /\ ppc' = "send_busy"
                          /\ pcur' = req
                          /\ UNCHANGED <<input_queue, unfinished_tasks, plog>>
                     ELSE /\ input_queue' = QueuePut(input_queue, req)
                          /\ unfinished_tasks' = unfinished_tasks + 1
                          /\ plog' = Append(plog, Event("enqueue", id, thread_id,
                                                        sender_id, content, TRUE))
                          /\ ppc' = LoopTop
                          /\ pcur' = NoRequest
    /\ UNCHANGED <<config, consumerVars>>

\* wait_for_mentions from the parsed list on, and collect_inputs up to its
\* next suspension
MentionsReturn(messages) ==
    /\ ProducerResumes /\ ~MANUAL_INPUT /\ ppc = "wait_mentions"
    /\ IF messages = <<>>
       THEN /\ ppc' = "sleep"
            /\ UNCHANGED <<pcur, input_queue, unfinished_tasks, nextId, intake, plog>>
       ELSE /\ nextId < MaxRequests
            /\ LET message == messages[1]
                   thread_id == message.threadId
                   sender_id == message.senderId
                   content == message.content
                   id == nextId + 1
                   req == [id |-> id, input_query |-> content,
                           thread_id |-> thread_id, sender_id |-> sender_id]
               IN /\ nextId' = id
                  /\ intake' = Append(intake, Delivered(message,
                                    TruthyId(thread_id) /\ TruthyId(sender_id)
                                        /\ TruthyText(content)))
                  /\ IF ~TruthyId(thread_id)
                     THEN \* sleep SLEEP_INTERVAL and return None
                          /\ ppc' = "sleep"
                          /\ UNCHANGED <<pcur, input_queue, unfinished_tasks, plog>>
                     ELSE IF ~(TruthyId(thread_id) /\ TruthyId(sender_id)
                                 /\ TruthyText(content))
                     THEN \* send_message "Error: Missing message fields" in flight
                          /\ ppc' = "send_err"
                          /\ pcur' = req
                          /\ UNCHANGED <<input_queue, unfinished_tasks, plog>>
                     ELSE IF is_busy
                     THEN \* process_and_respond(busy text): send_message in flight
                          /\ ppc' = "send_busy"
                          /\ pcur' = req
                          /\ UNCHANGED <<input_queue, unfinished_tasks, plog>>
                     ELSE /\ input_queue' = QueuePut(input_queue, req)
                          /\ unfinished_tasks' = unfinished_tasks + 1
                          /\ plog' = Append(plog, Event("enqueue", id, thread_id,
                                                        sender_id, content, TRUE))
                          /\ ppc' = LoopTop
                          /\ pcur' = NoRequest
    /\ UNCHANGED <<config, consumerVars>>

\* wait_for_mentions without the return None after the error reply: the
\* incomplete message is returned to collect_inputs
SendErrorReturn_falls_through(ok) ==
    /\ ProducerResumes /\ ppc = "send_err"
    /\ ok \/ CanFail
    /\ LET replied == Append(plog, Event("error_reply", pcur.id, pcur.thread_id,
                                         pcur.sender_id, MissingFieldsText, ok))
       IN IF ~ok
          THEN /\ plog' = replied
               /\ ppc' = "backoff"
               /\ pcur' = NoRequest
               /\ UNCHANGED <<input_queue, unfinished_tasks>>
          ELSE IF ~TruthyText(pcur.input_query)
          THEN /\ plog' = replied
               /\ ppc' = "sleep"
               /\ pcur' = NoRequest
               /\ UNCHANGED <<input_queue, unfinished_tasks>>
          ELSE IF is_busy
          THEN /\ plog' = replied
               /\ ppc' = "send_busy"
               /\ UNCHANGED <<pcur, input_queue, unfinished_tasks>>
          ELSE /\ input_queue' = QueuePut(input_queue, pcur)
               /\ unfinished_tasks' = unfinished_tasks + 1
               /\ plog' = Append(replied, Event("enqueue", pcur.id, pcur.thread_id,
                                                pcur.sender_id, pcur.input_query, TRUE))
               /\ ppc' = LoopTop
               /\ pcur' = NoRequest
    /\ UNCHANGED <<config, consumerVars, nextId, intake>>

\* wait_for_mentions: the send_message call of the error reply returns or
\* raises; on return sleep SLEEP_INTERVAL and return None
SendErrorReturn(ok) ==
    /\ ProducerResumes /\ ppc = "send_err"
    /\ ok \/ CanFail
    /\ plog' = Append(plog, Event("error_reply", pcur.id, pcur.thread_id,
                                  pcur.sender_id, MissingFieldsText, ok))
    /\ ppc' = IF ok THEN "sleep" ELSE "backoff"
    /\ pcur' = NoRequest
    /\ UNCHANGED <<config, consumerVars, input_queue, unfinished_tasks, nextId, intake>>

\* process_and_respond called by collect_inputs: the send_message call of
\* the busy notice returns (then sleeps SLEEP_INTERVAL) or raises (then the
\* except clause of collect_inputs runs and the put is skipped)
SendBusyReturn(ok) ==
    /\ ProducerResumes /\ ppc = "send_busy"
    /\ ok \/ CanFail
    /\ plog' = Append(plog, Event("busy", pcur.id, pcur.thread_id,
                                  pcur.sender_id, BusyText, ok))
    /\ ppc' = IF ok THEN "busy_sleep" ELSE "backoff"
    /\ pcur' = IF ok THEN pcur ELSE NoRequest
    /\ UNCHANGED <<config, consumerVars, input_queue, unfinished_tasks, nextId, intake>>

\* collect_inputs that marks the agent busy itself when it enqueues a request
\* after a busy notice
BusySleepWake_marks_busy ==
    /\ ProducerResumes /\ ppc = "busy_sleep"
    /\ input_queue' = QueuePut(input_queue, pcur)
    /\ unfinished_tasks' = unfinished_tasks + 1
    /\ plog' = Append(plog, Event("enqueue", pcur.id, pcur.thread_id,
                                  pcur.sender_id, pcur.input_query, TRUE))
    /\ ppc' = LoopTop
    /\ pcur' = NoRequest
    /\ is_busy' = TRUE
    /\ UNCHANGED <<config, history, cpc, ccur, clog, appended, nextId, intake>>

\* collect_inputs after process_and_respond has returned: input_queue.put
BusySleepWake ==
    /\ ProducerResumes /\ ppc = "busy_sleep"
    /\ input_queue' = QueuePut(input_queue, pcur)
    /\ unfinished_tasks' = unfinished_tasks + 1
    /\ plog' = Append(plog, Event("enqueue", pcur.id, pcur.thread_id,
                                  pcur.sender_id, pcur.input_query, TRUE))
    /\ ppc' = LoopTop
    /\ pcur' = NoRequest
    /\ UNCHANGED <<config, consumerVars, nextId, intake>>

\* collect_inputs whose except clause gives up: after the pause that follows
\* an error the loop is left
ProducerSleepWake_gives_up ==
    /\ ProducerResumes /\ ppc \in {"sleep", "backoff"}
    /\ ppc' = IF ppc = "backoff" THEN "done" ELSE LoopTop
    /\ UNCHANGED <<config, consumerVars, input_queue, unfinished_tasks, pcur,
                   nextId, intake, plog>>

\* asyncio.sleep of collect_inputs / wait_for_mentions is over: loop again
ProducerSleepWake ==
    /\ ProducerResumes /\ ppc \in {"sleep", "backoff"}
    /\ ppc' = LoopTop
    /\ UNCHANGED <<config, consumerVars, input_queue, unfinished_tasks, pcur,
                   nextId, intake, plog>>

collect_inputs ==
    \/ \E line \in Lines(nextId + 1) : ManualInput(line)
    \/ ManualInputRaises
    \/ \E ok \in BOOLEAN : GetResourcesReturn(ok)
    \/ MentionsRaises
    \/ MentionsNoNew
    \/ \E messages \in MentionsResponses(nextId + 1) : MentionsReturn(messages)
    \/ \E ok \in BOOLEAN : SendErrorReturn(ok)
    \/ \E ok \in BOOLEAN : SendBusyReturn(ok)
    \/ BusySleepWake
    \/ ProducerSleepWake

\* ---------------------------------------------------------------- consumer
producerVars == <<ppc, pcur, nextId, intake, plog>>

\* asyncio.Queue.task_done raises ValueError when called too many times.  A
\* ValueError of the task_done of the try body reaches the except clause,
\* whose own task_done raises again: the error leaves process_inputs and the
\* task ends ("dead").
TaskDoneRaises == unfinished_tasks <= 0

\* process_inputs that starts agent.ainvoke without awaiting it: the next
\* item is taken while the previous call is still running
ConsumerGet_no_await ==
    /\ Running /\ cpc \in {"get", "invoke"} /\ ~LoopBlocked
    /\ input_queue # <<>>
    /\ LET req == Head(input_queue) IN
       /\ input_queue' = Tail(input_queue)
       /\ is_busy' = TRUE
       /\ ccur' = [req |-> req, history_str |-> _format_history(history),
                   output |-> NoText]
       /\ clog' = Append(clog, Event("call", req.id, req.thread_id, req.sender_id,
                                     req.input_query, TRUE))
    /\ cpc' = "invoke"
    /\ UNCHANGED <<config, producerVars, history, unfinished_tasks, appended>>

\* process_inputs on a queue that hands out the newest item first
ConsumerGet_lifo ==
    /\ Running /\ cpc = "get" /\ ~LoopBlocked
    /\ input_queue # <<>>
    /\ LET req == input_queue[Len(input_queue)] IN
       /\ input_queue' = SubSeq(input_queue, 1, Len(input_queue) - 1)
       /\ is_busy' = TRUE
       /\ ccur' = [req |-> req, history_str |-> _format_history(history),
                   output |-> NoText]
       /\ clog' = Append(clog, Event("call", req.id, req.thread_id, req.sender_id,
                                     req.input_query, TRUE))
    /\ cpc' = "invoke"
    /\ UNCHANGED <<config, producerVars, history, unfinished_tasks, appended>>

\* process_inputs from the top of its while loop to the next suspension,
\* with log what the task has emitted so far and hist the history as it is
\* now.  input_queue.get() suspends only on an empty queue; otherwise the
\* item is taken at once, is_busy = True, the history is formatted and
\* agent.ainvoke is started.
ConsumerLoop(log, hist) ==
    IF input_queue = <<>>
    THEN /\ cpc' = "get"
         /\ is_busy' = FALSE
         /\ ccur' = NoCur
         /\ clog' = log
         /\ UNCHANGED input_queue
    ELSE LET req == Head(input_queue) IN
         /\ input_queue' = Tail(input_queue)
         /\ is_busy' = TRUE
         /\ ccur' = [req |-> req, history_str |-> _format_history(hist),
                     output |-> NoText]
         /\ clog' = Append(log, Event("call", req.id, req.thread_id, req.sender_id,
                                      req.input_query, TRUE))
         /\ cpc' = "invoke"

\* the end of the handling of a request: task_done, is_busy = False, and the
\* loop goes on; a task_done too many ends the task
FinishAndLoop(log, hist) ==
    IF TaskDoneRaises
    THEN /\ cpc' = "dead"
         /\ is_busy' = FALSE
         /\ ccur' = NoCur
         /\ clog' = log
         /\ UNCHANGED <<input_queue, unfinished_tasks>>
    ELSE /\ unfinished_tasks' = unfinished_tasks - 1
         /\ ConsumerLoop(log, hist)

\* process_inputs suspended in input_queue.get() on an empty queue: an item
\* has been put, get returns it
ConsumerGet ==
    /\ Running /\ cpc = "get" /\ ~LoopBlocked
    /\ input_queue # <<>>
    /\ ConsumerLoop(clog, history)
    /\ UNCHANGED <<config, producerVars, history, unfinished_tasks, appended>>

\* process_inputs whose inner try does not catch the gateway error: the
\* outer except clause handles it (is_busy = False, task_done, sleep 0.5)
AinvokeReturn_uncaught(outcome) ==
    /\ Running /\ cpc = "invoke" /\ ~LoopBlocked
    /\ outcome.kind # "raise" \/ CanFail
    /\ LET req == ccur.req
           output == GatewayOutput(outcome)
           entry == <<req.input_query, output>>
           hist == DequeAppend(history, entry, history_maxlen)
           printed == Append(clog, Event("print", req.id, req.thread_id,
                                         req.sender_id, output, TRUE))
       IN IF outcome.kind = "raise"
          THEN /\ clog' = Append(clog, Event("raise", req.id, req.thread_id,
                                             req.sender_id, outcome.val, FALSE))
               /\ is_busy' = FALSE
               /\ unfinished_tasks' = unfinished_tasks - 1
               /\ cpc' = "backoff"
               /\ ccur' = NoCur
               /\ UNCHANGED <<history, appended, input_queue>>
          ELSE /\ history' = hist
               /\ appended' = Append(appended, [id |-> req.id, entry |-> entry])
               /\ IF ~MANUAL_INPUT /\ TruthyId(req.thread_id) /\ TruthyId(req.sender_id)
                  THEN /\ cpc' = "respond"
                       /\ ccur' = [ccur EXCEPT !.output = output]
                       /\ clog' = printed
                       /\ UNCHANGED <<is_busy, unfinished_tasks, input_queue>>
                  ELSE FinishAndLoop(printed, hist)
    /\ UNCHANGED <<config, producerVars>>

\* process_inputs that replies on the hub only when the gateway call succeeded
AinvokeReturn_no_reply_on_error(outcome) ==
    /\ Running /\ cpc = "invoke" /\ ~LoopBlocked
    /\ outcome.kind # "raise" \/ CanFail
    /\ LET req == ccur.req
           output == GatewayOutput(outcome)
           entry == <<req.input_query, output>>
           hist == DequeAppend(history, entry, history_maxlen)
           raised == IF outcome.kind = "raise"
                     THEN <<Event("raise", req.id, req.thread_id, req.sender_id,
                                  outcome.val, FALSE)>>
                     ELSE <<>>
           printed == clog \o raised
                        \o <<Event("print", req.id, req.thread_id, req.sender_id,
                                   output, TRUE)>>
       IN /\ history' = hist
          /\ appended' = Append(appended, [id |-> req.id, entry |-> entry])
          /\ IF ~MANUAL_INPUT /\ TruthyId(req.thread_id) /\ TruthyId(req.sender_id)
                /\ outcome.kind # "raise"
             THEN /\ cpc' = "respond"
                  /\ ccur' = [ccur EXCEPT !.output = output]
                  /\ clog' = printed
                  /\ UNCHANGED <<is_busy, unfinished_tasks, input_queue>>
             ELSE FinishAndLoop(printed, hist)
    /\ UNCHANGED <<config, producerVars>>

\* process_inputs that sets is_busy = False as soon as the gateway call is
\* over, before process_and_respond
AinvokeReturn_clears_busy_early(outcome) ==
    /\ Running /\ cpc = "invoke" /\ ~LoopBlocked
    /\ outcome.kind # "raise" \/ CanFail
    /\ LET req == ccur.req
           output == GatewayOutput(outcome)
           entry == <<req.input_query, output>>
           hist == DequeAppend(history, entry, history_maxlen)
           raised == IF outcome.kind = "raise"
                     THEN <<Event("raise", req.id, req.thread_id, req.sender_id,
                                  outcome.val, FALSE)>>
                     ELSE <<>>
           printed == clog \o raised
                        \o <<Event("print", req.id, req.thread_id, req.sender_id,
                                   output, TRUE)>>
       IN /\ history' = hist
          /\ appended' = Append(appended, [id |-> req.id, entry |-> entry])
          /\ IF ~MANUAL_INPUT /\ TruthyId(req.thread_id) /\ TruthyId(req.sender_id)
             THEN /\ cpc' = "respond"
                  /\ ccur' = [ccur EXCEPT !.output = output]
                  /\ clog' = printed
                  /\ is_busy' = FALSE
                  /\ UNCHANGED <<unfinished_tasks, input_queue>>
             ELSE FinishAndLoop(printed, hist)
    /\ UNCHANGED <<config, producerVars>>

\* process_inputs from the end of agent.ainvoke (returned or raised) to the
\* next suspension: output, print, history.append, then either the start of
\* process_and_respond, or task_done, is_busy = False and the loop again
AinvokeReturn(outcome) ==
    /\ Running /\ cpc = "invoke" /\ ~LoopBlocked
    /\ outcome.kind # "raise" \/ CanFail
    /\ LET req == ccur.req
           output == GatewayOutput(outcome)
           entry == <<req.input_query, output>>
           hist == DequeAppend(history, entry, history_maxlen)
           raised == IF outcome.kind = "raise"
                     THEN <<Event("raise", req.id, req.thread_id, req.sender_id,
                                  outcome.val, FALSE)>>
                     ELSE <<>>
           printed == clog \o raised
                        \o <<Event("print", req.id, req.thread_id, req.sender_id,
                                   output, TRUE)>>
       IN /\ history' = hist
          /\ appended' = Append(appended, [id |-> req.id, entry |-> entry])
          /\ IF ~MANUAL_INPUT /\ TruthyId(req.thread_id) /\ TruthyId(req.sender_id)
             THEN /\ cpc' = "respond"
                  /\ ccur' = [ccur EXCEPT !.output = output]
                  /\ clog' = printed
                  /\ UNCHANGED <<is_busy, unfinished_tasks, input_queue>>
             ELSE FinishAndLoop(printed, hist)
    /\ UNCHANGED <<config, producerVars>>

\* process_inputs without its outer except clause: the error of the
\* send_message call leaves process_inputs and the task ends
RespondReturn_uncaught(ok) ==
    /\ Running /\ cpc = "respond" /\ ~LoopBlocked
    /\ ok \/ CanFail
    /\ clog' = Append(clog, Event("send", ccur.req.id, ccur.req.thread_id,
                                  ccur.req.sender_id, ccur.output, ok))
    /\ cpc' = IF ok THEN "respond_sleep" ELSE "dead"
    /\ UNCHANGED <<is_busy, unfinished_tasks, ccur>>
    /\ UNCHANGED <<config, producerVars, history, input_queue, appended>>

\* process_inputs whose outer except clause does not call task_done
RespondReturn_no_task_done(ok) ==
    /\ Running /\ cpc = "respond" /\ ~LoopBlocked
    /\ ok \/ CanFail
    /\ clog' = Append(clog, Event("send", ccur.req.id, ccur.req.thread_id,
                                  ccur.req.sender_id, ccur.output, ok))
    /\ IF ok
       THEN /\ cpc' = "respond_sleep"
            /\ UNCHANGED <<is_busy, ccur>>
       ELSE /\ is_busy' = FALSE
            /\ cpc' = "backoff"
            /\ ccur' = NoCur
    /\ UNCHANGED <<config, producerVars, history, input_queue, unfinished_tasks,
                   appended>>

\* process_and_respond called by process_inputs: the send_message call of
\* the response returns (then sleeps SLEEP_INTERVAL) or raises (then the
\* outer except clause of process_inputs runs: is_busy = False, task_done,
\* sleep 0.5)
RespondReturn(ok) ==
    /\ Running /\ cpc = "respond" /\ ~LoopBlocked
    /\ ok \/ CanFail
    /\ clog' = Append(clog, Event("send", ccur.req.id, ccur.req.thread_id,
                                  ccur.req.sender_id, ccur.output, ok))
    /\ IF ok
       THEN /\ cpc' = "respond_sleep"
            /\ UNCHANGED <<is_busy, unfinished_tasks, ccur>>
       ELSE /\ is_busy' = FALSE
            /\ IF TaskDoneRaises
               THEN cpc' = "dead" /\ UNCHANGED unfinished_tasks
               ELSE cpc' = "backoff" /\ unfinished_tasks' = unfinished_tasks - 1
            /\ ccur' = NoCur
    /\ UNCHANGED <<config, producerVars, history, input_queue, appended>>

\* process_inputs that does not set is_busy = False after a response has
\* been sent: the flag stays true while the task waits on the empty queue
RespondSleepWake_keeps_busy ==
    /\ Running /\ cpc = "respond_sleep" /\ ~LoopBlocked
    /\ IF TaskDoneRaises
       THEN /\ cpc' = "dead"
            /\ ccur' = NoCur
            /\ UNCHANGED <<input_queue, unfinished_tasks, is_busy, clog>>
       ELSE /\ unfinished_tasks' = unfinished_tasks - 1
            /\ IF input_queue = <<>>
               THEN /\ cpc' = "get"
                    /\ ccur' = NoCur
                    /\ UNCHANGED <<input_queue, is_busy, clog>>
               ELSE ConsumerLoop(clog, history)
    /\ UNCHANGED <<config, producerVars, history, appended>>

\* process_inputs after process_and_respond has returned: task_done,
\* is_busy = False, and the loop again
RespondSleepWake ==
    /\ Running /\ cpc = "respond_sleep" /\ ~LoopBlocked
    /\ FinishAndLoop(clog, history)
    /\ UNCHANGED <<config, producerVars, history, appended>>

\* the sleep(0.5) of the outer except clause is over: the loop again
ConsumerBackoffWake ==
    /\ Running /\ cpc = "backoff" /\ ~LoopBlocked
    /\ ConsumerLoop(clog, history)
    /\ UNCHANGED <<config, producerVars, history, unfinished_tasks, appended>>

process_inputs ==
    \/ ConsumerGet
    \/ \E outcome \in GatewayOutcomes : AinvokeReturn(outcome)
    \/ \E ok \in BOOLEAN : RespondReturn(ok)
    \/ RespondSleepWake
    \/ ConsumerBackoffWake

Next == collect_inputs \/ process_inputs

Spec == Init /\ [][Next]_vars

SpecRing == InitRing /\ [][Next]_vars

\* ---------------------------------------------------------------- run
\* The life of the program from the __main__ block to the end of run().
\* phase: "starting" (nothing constructed), "session" (entering the
\* playwright session), "load_tools", "get_tools" (initialize_agent awaits
\* the hub's tool list), "running" (inside asyncio.gather), "closing" (the
\* finally clause of run awaits self.client.close()), "session_exit" (run
\* awaits the exit of the session context manager), and the final phases
\* "closed" (run has ended after its clean-up, normally or with an
\* exception), "aborted" (SystemExit in the constructor) and "failed" (the
\* session was not entered).
\*
\* asyncio.gather returns only when both tasks have ended.  process_inputs
\* has no return statement and ends only when an error leaves it ("dead",
\* which needs a task_done too many) or when it is cancelled, so the phase
\* "running" is left through the cancellation of gather only.
taskVars == <<history, is_busy, input_queue, unfinished_tasks, ppc, pcur, cpc,
              ccur, nextId, intake, plog, clog, appended>>
fixed == <<MANUAL_INPUT, history_maxlen, env>>

\* BrowserAgent(history_maxlen=5): _validate_env_vars raises SystemExit when
\* a MODEL_* variable is missing; otherwise the playwright client object is
\* built (no connection yet) and asyncio.run(agent.run()) starts
Construct ==
    /\ phase = "starting"
    /\ phase' = IF env.model THEN "session" ELSE "aborted"
    /\ UNCHANGED <<fixed, taskVars, conn_log>>

\* async with self.client.session("playwright"): the session is entered, or
\* entering raises (outside the try statement of run)
SessionEnter(ok) ==
    /\ phase = "session"
    /\ IF ok
       THEN /\ conn_log' = Append(conn_log, "open_tool")
            /\ phase' = "load_tools"
       ELSE /\ phase' = "failed"
            /\ UNCHANGED conn_log
    /\ UNCHANGED <<fixed, taskVars>>

\* initialize_agent up to its first suspension: ValueError when CORAL_SSE_URL
\* or CORAL_AGENT_ID is missing, else the hub client is built and
\* client.get_tools is awaited
initialize_agent == IF env.hub THEN "get_tools" ELSE "closing"

\* load_mcp_tools returns or raises; on return create_agent, and in remote
\* mode initialize_agent up to its first suspension; in manual mode the queue
\* is created and asyncio.gather starts the two tasks
LoadToolsReturn(ok) ==
    /\ phase = "load_tools"
    /\ phase' = IF ~ok THEN "closing"
                ELSE IF MANUAL_INPUT THEN "running"
                ELSE initialize_agent
    /\ UNCHANGED <<fixed, taskVars, conn_log>>

\* initialize_agent: client.get_tools(server_name="coral") returns or raises;
\* on return the queue is created and asyncio.gather starts the two tasks
GetToolsReturn(ok) ==
    /\ phase = "get_tools"
    /\ IF ok
       THEN /\ conn_log' = Append(conn_log, "open_hub")
            /\ phase' = "running"
       ELSE /\ phase' = "closing"
            /\ UNCHANGED conn_log
    /\ UNCHANGED <<fixed, taskVars>>

\* The task of run() is cancelled (Ctrl-C, or cancellation by the caller)
\* where it is suspended.  While the session is being entered, run() ends
\* without a session.  Inside the try statement (load_mcp_tools,
\* initialize_agent, asyncio.gather) the finally clause runs next; inside
\* asyncio.gather both tasks are cancelled where they are suspended:
\* CancelledError is not an Exception, so no except clause of collect_inputs
\* or process_inputs catches it and the tasks end at once, and run() logs
\* "Tasks cancelled".  While self.client.close() is awaited, close() is
\* abandoned and the session is left; while the exit of the session is
\* awaited, the exit is abandoned and run() ends.
Cancel ==
    /\ phase \in {"session", "load_tools", "get_tools", "running", "closing",
                  "session_exit"}
    /\ phase' = CASE phase = "session" -> "failed"
                  [] phase = "closing" -> "session_exit"
                  [] phase = "session_exit" -> "closed"
                  [] OTHER -> "closing"
    /\ IF Running
       THEN /\ ppc' = IF ppc = "done" THEN ppc ELSE "cancelled"
            /\ cpc' = IF cpc = "dead" THEN cpc ELSE "cancelled"
       ELSE UNCHANGED <<ppc, cpc>>
    /\ UNCHANGED <<fixed, conn_log, history, is_busy, input_queue,
                   unfinished_tasks, pcur, ccur, nextId, intake, plog, clog,
                   appended>>

\* the finally clause of run: self.client.close() on the playwright client
\* returns or raises; in both cases the session context manager is left
\* next.  Nothing closes the hub client that initialize_agent returned.
ClientCloseReturn(ok) ==
    /\ phase = "closing"
    /\ conn_log' = IF ok THEN Append(conn_log, "tool_client_close") ELSE conn_log
    /\ phase' = "session_exit"
    /\ UNCHANGED <<fixed, taskVars>>

\* the exit of async with self.client.session("playwright") returns (the
\* session is closed) or raises; run() ends
SessionExitReturn(ok) ==
    /\ phase = "session_exit"
    /\ conn_log' = IF ok THEN Append(conn_log, "close_tool") ELSE conn_log
    /\ phase' = "closed"
    /\ UNCHANGED <<fixed, taskVars>>

NextLife ==
    \/ Construct
    \/ \E ok \in BOOLEAN : SessionEnter(ok)
    \/ \E ok \in BOOLEAN : LoadToolsReturn(ok)
    \/ \E ok \in BOOLEAN : GetToolsReturn(ok)
    \/ collect_inputs
    \/ process_inputs
    \/ Cancel
    \/ \E ok \in BOOLEAN : ClientCloseReturn(ok)
    \/ \E ok \in BOOLEAN : SessionExitReturn(ok)

\* the whole program, from the __main__ block on
SpecLife == InitLife /\ [][NextLife]_vars

\* ---------------------------------------------------------------- properties
Ids == 1..nextId
Positions(log, ev, id) == {i \in DOMAIN log : log[i].ev = ev /\ log[i].id = id}
Count(log, ev, id) == Cardinality(Positions(log, ev, id))
Before(log, ev1, id1, j) == \E i \in 1..(j - 1) : log[i].ev = ev1 /\ log[i].id = id1
Min(a, b) == IF a < b THEN a ELSE b

\* requests whose agent.ainvoke has started and has neither returned nor raised
GatewayInFlight == {id \in Ids : Count(clog, "call", id) > Count(clog, "print", id)}

\* C1: at most one gateway call (agent.ainvoke) is in flight, and a gateway
\* call starts only after the gateway call of the request dequeued before it
\* has returned or raised.
C1_AtMostOneGatewayCall ==
    /\ Cardinality(GatewayInFlight) <= 1
    /\ \A i \in DOMAIN clog :
          clog[i].ev = "call" =>
             \A j \in (i + 1)..Len(clog) :
                clog[j].ev = "call" =>
                   \E k \in (i + 1)..(j - 1) :
                      clog[k].ev = "print" /\ clog[k].id = clog[i].id

\* a gateway call is in flight after an earlier one has completed, while
\* another request waits in the queue
C1_Witness ==
    /\ cpc = "invoke" /\ input_queue # <<>>
    /\ \E i \in DOMAIN clog : clog[i].ev = "print"
    /\ Cardinality(GatewayInFlight) = 1

\* C2: responses are dispatched in enqueue order: when r1 was enqueued before
\* r2, r1's response has been printed (and, in remote mode, its send_message
\* call has completed) before r2's gateway call starts and before r2's
\* response is printed or sent.
C2_ResponsesInEnqueueOrder ==
    \A j \in DOMAIN plog :
        plog[j].ev = "enqueue" =>
           \A i \in 1..(j - 1) :
              plog[i].ev = "enqueue" =>
                 LET r1 == plog[i].id
                     r2 == plog[j].id
                 IN \A k \in DOMAIN clog :
                       clog[k].id = r2 =>
                          /\ clog[k].ev = "call" =>
                                /\ Before(clog, "print", r1, k)
                                /\ ~MANUAL_INPUT => Before(clog, "send", r1, k)
                          /\ clog[k].ev = "print" => Before(clog, "print", r1, k)
                          /\ clog[k].ev = "send" => Before(clog, "send", r1, k)

\* three requests, the later two taken in while the first was being
\* processed, have all been answered on the hub
C2_Witness ==
    /\ ~MANUAL_INPUT
    /\ nextId >= 3
    /\ \A id \in 1..3 : \E i \in Positions(clog, "send", id) : clog[i].ok
    /\ intake[2].during = 1 /\ intake[3].during = 1

\* C3: the history never holds more than history_maxlen entries, and after k
\* appends it holds the last min(k, history_maxlen) appended pairs, oldest
\* first.
C3_HistoryRing ==
    LET k == Len(appended)
        m == Min(k, history_maxlen)
    IN /\ Len(history) <= history_maxlen
       /\ history = [i \in 1..m |-> appended[k - m + i].entry]

\* an append has evicted the oldest entry of a full ring of two or more
C3_Witness ==
    /\ history_maxlen >= 2
    /\ Len(appended) > history_maxlen
    /\ Len(history) = history_maxlen
    /\ history[1] = appended[Len(appended) - history_maxlen + 1].entry

\* ---- what the producer was given
\* input n is a request collect_inputs accepts: non-empty text, and in remote
\* mode a thread and a sender
WellFormedInput(id) ==
    /\ TruthyText(intake[id].msg.content)
    /\ ~MANUAL_INPUT => /\ TruthyId(intake[id].msg.threadId)
                        /\ TruthyId(intake[id].msg.senderId)
\* input n is a remote message with a thread identifier that lacks its
\* sender or its content
LacksSenderOrContent(id) ==
    /\ ~MANUAL_INPUT
    /\ TruthyId(intake[id].msg.threadId)
    /\ ~TruthyId(intake[id].msg.senderId) \/ ~TruthyText(intake[id].msg.content)
\* input n is a remote message without a thread identifier
LacksThread(id) == ~MANUAL_INPUT /\ ~TruthyId(intake[id].msg.threadId)
\* collect_inputs has finished with input n
TakenIn(id) == pcur.id # id
\* process_inputs has finished with request n
Processed(id) == Count(clog, "call", id) > 0 /\ ccur.req.id # id
\* a response to request n has been printed or sent
Responded(id) == Count(clog, "print", id) > 0 \/ Count(clog, "send", id) > 0
Contains(text, part) ==
    \E i \in 0..(Len(text) - Len(part)) : SubSeq(text, i + 1, i + Len(part)) = part

\* C4: a request accepted while is_busy is true gets exactly one busy notice
\* and is also enqueued (and then handled by at most one gateway call).
C4_BusyNoticeAndEnqueued ==
    \A id \in Ids :
        (intake[id].during # 0 /\ TakenIn(id))
        => /\ Count(plog, "busy", id) = 1
           /\ Count(plog, "enqueue", id) = 1
           /\ Count(clog, "call", id) <= 1

\* C5: every non-empty well-formed request the producer obtains is enqueued,
\* whatever the value of is_busy and whatever the outcome of the busy notice.
C5_AlwaysEnqueued ==
    \A id \in Ids :
        (WellFormedInput(id) /\ TakenIn(id)) => Count(plog, "enqueue", id) = 1

\* C6: a gateway call that raises yields exactly one history entry for its
\* request, whose response text contains the error detail; the error does
\* not end process_inputs, which is back at input_queue.get (or on its way
\* there) with is_busy reset.
C6_GatewayErrorHandled ==
    /\ cpc \in {"get", "invoke", "respond", "respond_sleep", "backoff"}
    /\ \A i \in DOMAIN clog :
          clog[i].ev = "raise"
          => LET id == clog[i].id
                 entries == {k \in DOMAIN appended : appended[k].id = id}
             IN /\ Cardinality(entries) = 1
                /\ \A k \in entries :
                      /\ appended[k].entry[1] = intake[id].msg.content
                      /\ Contains(appended[k].entry[2], clog[i].content)
                /\ Processed(id) => (cpc \in {"get", "backoff"} => ~is_busy)

\* the gateway call of one request raised, and a request enqueued after it
\* has been handled by the gateway and recorded in the history
C6_Witness ==
    \E i, j \in DOMAIN clog :
        /\ i < j
        /\ clog[i].ev = "raise" /\ clog[j].ev = "print"
        /\ clog[j].id > clog[i].id
        /\ clog[j].content \in Outputs
        /\ \E k \in DOMAIN history : history[k][2] = ErrorPrefix \o clog[i].content

\* C7: in remote mode every request process_inputs has handled, its gateway
\* call having returned or raised, has caused exactly one send_message call,
\* with the thread and the sender of that same request as they were taken in
\* and the text printed for it; no other response send_message is made.
C7_OneAddressedResponse ==
    ~MANUAL_INPUT =>
        /\ \A id \in Ids :
              LET sends == Count(clog, "send", id)
              IN /\ sends <= 1
                 /\ Processed(id) => sends = 1
        /\ \A i \in DOMAIN clog :
              clog[i].ev = "send"
              => LET id == clog[i].id IN
                 /\ clog[i].threadId = intake[id].msg.threadId
                 /\ clog[i].mentions = intake[id].msg.senderId
                 /\ \E k \in DOMAIN appended :
                       /\ appended[k].id = id
                       /\ appended[k].entry = <<intake[id].msg.content, clog[i].content>>

\* two requests of different threads and senders have been handled, the
\* gateway call of one raised and the other returned, both were answered
C7_Witness ==
    /\ ~MANUAL_INPUT
    /\ \E i, j \in DOMAIN clog :
          /\ clog[i].ev = "send" /\ clog[j].ev = "send" /\ clog[i].ok /\ clog[j].ok
          /\ clog[i].threadId # clog[j].threadId
          /\ clog[i].mentions # clog[j].mentions
          /\ Count(clog, "raise", clog[i].id) = 1
          /\ Count(clog, "raise", clog[j].id) = 0
          /\ Processed(clog[i].id) /\ Processed(clog[j].id)

\* C8: a remote message with a thread identifier that lacks its sender or
\* its content causes exactly one error reply send_message, on its thread,
\* and is never enqueued; the producer goes on polling.
C8_MissingSenderOrContent ==
    \A id \in Ids :
        LacksSenderOrContent(id)
        => /\ Count(plog, "enqueue", id) = 0
           /\ Count(plog, "busy", id) = 0
           /\ Count(clog, "call", id) = 0
           /\ \A q \in DOMAIN input_queue : input_queue[q].id # id
           /\ IF TakenIn(id)
              THEN /\ Count(plog, "error_reply", id) = 1
                   /\ \A i \in Positions(plog, "error_reply", id) :
                         /\ plog[i].threadId = intake[id].msg.threadId
                         /\ plog[i].mentions = intake[id].msg.senderId
                         /\ plog[i].content = MissingFieldsText
              ELSE ppc = "send_err" /\ Count(plog, "error_reply", id) = 0
           /\ ppc \in {"get_resources", "wait_mentions", "send_err", "send_busy",
                       "busy_sleep", "sleep", "backoff"}

\* a message without sender got its error reply, and the producer has since
\* polled again and enqueued a later request
C8_Witness ==
    \E id \in Ids :
        /\ LacksSenderOrContent(id)
        /\ ~TruthyId(intake[id].msg.senderId)
        /\ \E i \in Positions(plog, "error_reply", id) : plog[i].ok
        /\ \E later \in Ids : later > id /\ Count(plog, "enqueue", later) = 1

\* C9 as claimed: every malformed remote message (thread, sender or content
\* missing) gets an error reply and is not enqueued.
C9_EveryMalformedGetsErrorReply ==
    \A id \in Ids :
        ((LacksThread(id) \/ LacksSenderOrContent(id)) /\ TakenIn(id))
        => /\ Count(plog, "error_reply", id) = 1
           /\ Count(plog, "enqueue", id) = 0

\* C9 as amended: every malformed remote message is dropped without being
\* enqueued and does not end the producer; it gets an error reply when its
\* thread identifier is present, and no reply when the thread identifier is
\* missing.
C9_MalformedDropped ==
    \A id \in Ids :
        (LacksThread(id) \/ LacksSenderOrContent(id))
        => /\ Count(plog, "enqueue", id) = 0
           /\ Count(clog, "call", id) = 0
           /\ ppc # "done"
           /\ LacksThread(id)
                => /\ Count(plog, "error_reply", id) = 0
                   /\ Count(plog, "busy", id) = 0
                   /\ TakenIn(id)
           /\ (~LacksThread(id) /\ TakenIn(id)) => Count(plog, "error_reply", id) = 1

\* a message without thread identifier was dropped, one without content was
\* answered with the error reply, and a later request was enqueued
C9_Witness ==
    \E a, b, c \in Ids :
        /\ LacksThread(a)
        /\ LacksSenderOrContent(b) /\ TakenIn(b) /\ ~TruthyText(intake[b].msg.content)
        /\ c > a /\ c > b /\ Count(plog, "enqueue", c) = 1

\* C10: a request that arrived while an earlier one was being processed has
\* its busy notice before its own response, and its response only after the
\* responses of all requests enqueued before it.
C10_BusyThenOrderedResponse ==
    \A id \in Ids :
        (intake[id].during # 0 /\ Responded(id))
        => /\ Count(plog, "busy", id) = 1
           /\ \A i \in Positions(plog, "busy", id) :
                 /\ plog[i].ok
                 /\ \E e \in Positions(plog, "enqueue", id) : i < e
           /\ \A j \in Positions(plog, "enqueue", id) :
                 \A i \in 1..(j - 1) :
                    plog[i].ev = "enqueue" =>
                       \A k \in DOMAIN clog :
                          clog[k].id = id =>
                             /\ clog[k].ev = "print"
                                   => Before(clog, "print", plog[i].id, k)
                             /\ clog[k].ev = "send"
                                   => Before(clog, "send", plog[i].id, k)

\* A, B, then C while A was being processed: C got its busy notice, and the
\* responses came as A, B, C
C10_Witness ==
    /\ nextId >= 3
    /\ intake[3].during = 1
    /\ Count(plog, "busy", 3) = 1
    /\ \A id \in 1..3 : Count(plog, "enqueue", id) = 1
    /\ \E a \in Positions(clog, "print", 1) :
          \E b \in Positions(clog, "print", 2) :
             \E c \in Positions(clog, "print", 3) : a < b /\ b < c

\* ---------------------------------------------------------------- run: properties
\* the steps the program takes on its own: every step but a cancellation
\* that reaches it from outside
ProgramStep ==
    \/ Construct
    \/ \E ok \in BOOLEAN : SessionEnter(ok)
    \/ \E ok \in BOOLEAN : LoadToolsReturn(ok)
    \/ \E ok \in BOOLEAN : GetToolsReturn(ok)
    \/ collect_inputs
    \/ process_inputs
    \/ \E ok \in BOOLEAN : ClientCloseReturn(ok)
    \/ \E ok \in BOOLEAN : SessionExitReturn(ok)

ConnCount(e) == Cardinality({i \in DOMAIN conn_log : conn_log[i] = e})
ConnBefore(e1, e2) ==
    \E i, j \in DOMAIN conn_log : i < j /\ conn_log[i] = e1 /\ conn_log[j] = e2

\* C11: in manual mode the exit keyword ends the producer loop and, as a
\* consequence, the whole process terminates: once collect_inputs has
\* returned, the program does not come to rest in any state but Closed.
C11_ExitClosesProcess ==
    (ppc = "done" /\ ~ENABLED ProgramStep) => phase = "closed"

\* both awaits of the clean-up of run() have returned: neither was cancelled
\* and neither raised
CleanUpCompleted ==
    ConnCount("tool_client_close") = 1 /\ ConnCount("close_tool") = 1

\* C12: when the program is closed after a termination signal, its clean-up
\* undisturbed, every request the consumer had dequeued has been finished:
\* its response was printed and, for a request with a correlation in remote
\* mode, its send_message call was made (the in-flight response is not
\* dropped).
C12_InFlightFinishedBeforeClose ==
    (phase = "closed" /\ CleanUpCompleted) =>
       \A id \in Ids :
          Count(clog, "call", id) > 0 =>
             /\ Count(clog, "print", id) = 1
             /\ (~MANUAL_INPUT /\ TruthyId(intake[id].msg.senderId))
                    => Count(clog, "send", id) = 1

\* C13: when run() has ended and its clean-up was not disturbed (no
\* cancellation and no error while closing), each connection that was opened
\* (playwright session, hub client) has been closed exactly once, the hub
\* connection before the playwright session.
C13_ConnectionsClosedInReverseOrder ==
    (phase \in {"aborted", "failed"} \/ (phase = "closed" /\ CleanUpCompleted)) =>
       /\ ConnCount("close_tool") = ConnCount("open_tool")
       /\ ConnCount("close_hub") = ConnCount("open_hub")
       /\ ConnCount("open_tool") <= 1 /\ ConnCount("open_hub") <= 1
       /\ ConnCount("open_hub") = 1 => ConnBefore("close_hub", "close_tool")

\* the LLM settings, or in remote mode the hub URL or the agent identifier
RequiredEnvMissing == ~env.model \/ (~MANUAL_INPUT /\ ~env.hub)

\* C14: when a required environment variable is missing, no connection is
\* ever established (neither the playwright session nor the hub client) and
\* the concurrent phase is never entered.
C14_NoConnectionWhenEnvMissing ==
    RequiredEnvMissing => (conn_log = <<>> /\ phase # "running")

\* ---------------------------------------------------------------- tasks: properties
\* the positions at which process_inputs is alive
ConsumerAlive == {"get", "invoke", "respond", "respond_sleep", "backoff"}

\* C15: process_inputs ends only by cancellation.  An error raised while a
\* dequeued item is handled (the send_message call of the response raises)
\* is caught: during the pause that follows is_busy is false and no request
\* is held, and what process_inputs does next is to dequeue a later request.
C15_ConsumerSurvivesErrors ==
    /\ cpc \in ConsumerAlive \/ (cpc = "cancelled" /\ ~Running)
    /\ cpc = "backoff" =>
          /\ ~is_busy /\ ccur = NoCur
          /\ clog # <<>> /\ clog[Len(clog)].ev = "send" /\ ~clog[Len(clog)].ok
    /\ \A i \in DOMAIN clog :
          (clog[i].ev = "send" /\ ~clog[i].ok) =>
             /\ i = Len(clog) => cpc \in {"backoff", "get", "cancelled"}
             /\ i < Len(clog) => /\ clog[i + 1].ev = "call"
                                 /\ clog[i + 1].id > clog[i].id

\* the response to one request could not be sent, and a later request has
\* been processed and answered since
C15_Witness ==
    \E i, j \in DOMAIN clog :
       /\ i < j
       /\ clog[i].ev = "send" /\ ~clog[i].ok
       /\ clog[j].ev = "send" /\ clog[j].ok /\ clog[j].id > clog[i].id

\* process_inputs has something to do: a queued request to take, or a
\* request it is handling
ConsumerHasWork ==
    \/ cpc = "get" /\ input_queue # <<>>
    \/ cpc \in {"invoke", "respond", "respond_sleep", "backoff"}

\* C16: in manual mode, collect_inputs waiting for the operator's next line
\* does not block process_inputs: while the producer waits for a line and the
\* consumer has a queued request to take or a request in hand, the
\* consumer's next step can be taken.
C16_InputWaitDoesNotBlockConsumer ==
    (Running /\ MANUAL_INPUT /\ ppc = "input" /\ ConsumerHasWork)
        => ENABLED process_inputs

\* a call on the hub connection made by collect_inputs is outstanding
\* (get_resources, the wait_for_mentions tool, or a send_message of
\* wait_for_mentions / process_and_respond)
ProducerHubCall ==
    ~MANUAL_INPUT /\ ppc \in {"get_resources", "wait_mentions", "send_err", "send_busy"}

\* the send_message call of process_and_respond made by process_inputs is
\* outstanding
ConsumerHubCall == ~MANUAL_INPUT /\ cpc = "respond"

\* C17: in remote mode collect_inputs and process_inputs never have calls
\* outstanding on the hub connection at the same time.
C17_NoConcurrentHubCalls == ~(Running /\ ProducerHubCall /\ ConsumerHubCall)

LastN(s, n) == IF Len(s) <= n THEN s ELSE SubSeq(s, Len(s) - n + 1, Len(s))
\* the history.append calls made before the one for request id (all of them
\* when there is none for it yet)
AppendedBefore(id) ==
    LET at == {k \in DOMAIN appended : appended[k].id = id}
        n == IF at = {} THEN Len(appended) ELSE (CHOOSE k \in at : TRUE) - 1
    IN [k \in 1..n |-> appended[k].entry]
\* self.history as it was when request id was dequeued
HistoryBefore(id) == LastN(AppendedBefore(id), history_maxlen)

\* C18: the steps of process_inputs for a dequeued request come in the order
\* is_busy = True, _format_history, agent.ainvoke, history.append,
\* process_and_respond, is_busy = False.  While the gateway call runs, is_busy
\* is true, the formatted history is that of the ring without an entry for
\* the request, and nothing has been appended or sent for it; while the
\* response is being sent, the request's entry is the newest of the ring and
\* is_busy is still true; a response is never sent without its entry having
\* been appended.
C18_ConsumerStepOrder ==
    /\ cpc \in {"invoke", "respond", "respond_sleep"} =>
          /\ is_busy /\ ccur.req.id \in Ids
          /\ Count(clog, "call", ccur.req.id) = 1
          /\ ccur.history_str = _format_history(HistoryBefore(ccur.req.id))
    /\ cpc = "invoke" =>
          /\ ccur.history_str = _format_history(history)
          /\ \A k \in DOMAIN appended : appended[k].id # ccur.req.id
          /\ Count(clog, "print", ccur.req.id) = 0
          /\ Count(clog, "send", ccur.req.id) = 0
    /\ cpc = "respond" =>
          /\ appended # <<>>
          /\ appended[Len(appended)] =
                 [id |-> ccur.req.id, entry |-> <<ccur.req.input_query, ccur.output>>]
          /\ history_maxlen > 0 => history[Len(history)] = appended[Len(appended)].entry
          /\ Count(clog, "send", ccur.req.id) = 0
    /\ \A j \in DOMAIN clog :
          clog[j].ev = "send" =>
             /\ \E k \in DOMAIN appended : appended[k].id = clog[j].id
             /\ Before(clog, "call", clog[j].id, j)
    /\ cpc \in {"get", "backoff"} => ~is_busy

\* the response to the third request is being sent: two earlier entries were
\* formatted for its gateway call, its own entry has been appended since
C18_Witness ==
    /\ cpc = "respond" /\ is_busy
    /\ Len(AppendedBefore(ccur.req.id)) = 2
    /\ Len(history) = 3
    /\ Contains(ccur.history_str, <<"2", ". User: ">>)

\* a step of collect_inputs: its position, its locals, what it has taken in
\* or emitted, or the queue's tail changes
ProducerStepTaken ==
    \/ <<ppc, pcur, nextId, intake, plog>>' # <<ppc, pcur, nextId, intake, plog>>
    \/ Len(input_queue') > Len(input_queue)

\* C19: every step of collect_inputs (reading a line, polling the hub,
\* sending a busy notice or an error reply, enqueueing, handling its own
\* exceptions) leaves is_busy and self.history unchanged.
C19_ProducerLeavesBusyAndHistory ==
    [][ProducerStepTaken => (is_busy' = is_busy /\ history' = history)]_vars

\* collect_inputs has sent a busy notice and is about to enqueue, after an
\* earlier failure of its own, while is_busy is true and the history holds
\* an entry
C19_Witness ==
    /\ ppc = "busy_sleep" /\ is_busy /\ history # <<>>
    /\ \E i \in DOMAIN plog : ~plog[i].ok

\* the positions at which collect_inputs is alive in remote mode
ProducerAlive == {"get_resources", "wait_mentions", "send_err", "send_busy",
                  "busy_sleep", "sleep", "backoff"}

\* the mentions that reach the is_busy test while it is false are enqueued
\* at once, whatever went wrong before them
IdleMentionsEnqueued ==
    \A id \in Ids :
       (WellFormedInput(id) /\ intake[id].during = 0)
          => Count(plog, "enqueue", id) = 1

\* C20: in remote mode an error of a producer-side operation (get_resources,
\* the wait_for_mentions tool, a send_message of a reply) does not end
\* collect_inputs: the producer pauses ("backoff"), the pause ends at the top
\* of the loop with a new poll, and a well-formed mention delivered
\* afterwards while the agent is not busy is enqueued.
C20_ProducerSurvivesFailures ==
    [][~MANUAL_INPUT =>
         /\ ppc' \in ProducerAlive \/ (ppc' = "cancelled" /\ ~Running')
         /\ (ppc = "backoff" /\ ppc' # ppc) => ppc' \in {"get_resources", "cancelled"}
         /\ (ppc' = "backoff" /\ ppc # ppc') =>
               ppc \in {"get_resources", "wait_mentions", "send_err", "send_busy"}
         /\ IdleMentionsEnqueued']_vars

\* the send_message call of a reply has raised, and a mention delivered
\* after that failure has been enqueued
C20_Witness ==
    \E i, j \in DOMAIN plog :
       /\ i < j
       /\ ~plog[i].ok
       /\ plog[j].ev = "enqueue" /\ plog[j].id > plog[i].id

\* the request process_inputs has dequeued and not finished handling (0: none)
Held == ccur.req.id
HistoryEntries(id) == Cardinality({k \in DOMAIN appended : appended[k].id = id})
QueuedAt(id) == {k \in DOMAIN input_queue : input_queue[k].id = id}

\* C21: every enqueued request is handled exactly once.  A request is put
\* on the queue at most once and is then in exactly one place: waiting in
\* the queue (once), held by process_inputs, or finished.  A request taken
\* from the queue has caused exactly one gateway call and at most one
\* history entry, and a finished one exactly one printed response; requests
\* are taken in the order of their enqueueing, none is skipped.  The queue's
\* count of unfinished items is the number of requests waiting or held: one
\* task_done per finished request on every path, never below zero, and
\* process_inputs never ends on a task_done too many.
C21_HandledExactlyOnce ==
    /\ \A id \in Ids :
          LET enqueued == Count(plog, "enqueue", id)
              calls == Count(clog, "call", id)
              prints == Count(clog, "print", id)
              entries == HistoryEntries(id)
          IN /\ enqueued <= 1
             /\ calls + Cardinality(QueuedAt(id)) = enqueued
             /\ entries <= calls
             /\ prints = entries
             /\ Count(clog, "send", id) <= prints
             /\ (calls > 0 /\ Held # id) => prints = 1
             /\ calls > 0 => \A k \in DOMAIN input_queue : id < input_queue[k].id
    /\ \A i, j \in DOMAIN input_queue : i < j => input_queue[i].id < input_queue[j].id
    /\ unfinished_tasks = Len(input_queue) + (IF Held # 0 THEN 1 ELSE 0)
    /\ unfinished_tasks >= 0
    /\ cpc # "dead"

\* three requests have been finished and the queue is drained: one on the
\* success path, one whose gateway call raised, one whose response could
\* not be sent
C21_Witness ==
    /\ unfinished_tasks = 0 /\ input_queue = <<>> /\ Held = 0
    /\ \E a, b, c \in Ids :
          /\ a # b /\ b # c /\ a # c
          /\ Processed(a) /\ Processed(b) /\ Processed(c)
          /\ Count(clog, "raise", a) = 0
          /\ \E i \in Positions(clog, "send", a) : clog[i].ok
          /\ Count(clog, "raise", b) = 1
          /\ \E i \in Positions(clog, "send", c) : ~clog[i].ok

\* C22: wherever collect_inputs can read it, is_busy is true exactly when
\* process_inputs holds a dequeued request it has not finished handling:
\* true during the gateway call and during process_and_respond, false while
\* process_inputs waits on the queue or pauses after an error; and whenever
\* collect_inputs did read it as true, a request was being handled then.
C22_BusyIffRequestHeld ==
    Running =>
       /\ is_busy <=> Held # 0
       /\ is_busy <=> cpc \in {"invoke", "respond", "respond_sleep"}
       /\ Held # 0 => (Count(clog, "call", Held) = 1 /\ QueuedAt(Held) = {})
       /\ \A id \in Ids :
             intake[id].during # 0 =>
                /\ intake[id].during < id
                /\ Count(clog, "call", intake[id].during) = 1

\* an earlier request has been finished, the response to the next one has
\* been sent and its handling is not over, and collect_inputs has read
\* is_busy as true while that request was held
C22_Witness ==
    /\ cpc = "respond_sleep" /\ is_busy /\ Held > 1
    /\ Processed(Held - 1)
    /\ \E id \in Ids : intake[id].during = Held

====
